---- MODULE Spec2Model ----
(***************************************************************************)
(* Model of scripts/fetch-logseq-marketplace.js: the one-shot run of       *)
(* main() (catalog listing, then per directory entry manifest, commit      *)
(* history and icon, then the JSON output file), at the granularity of     *)
(* its awaits: each action is the synchronous code that runs between two   *)
(* awaited network responses.                                              *)
(***************************************************************************)
EXTENDS Integers, Sequences, FiniteSets, TLC

\* ------------------------------------------------------------------ bounds
MaxListing == 2
MaxCap == 2
MaxCommits == 3

\* ------------------------------------------------------- JavaScript values
\* undefined (a missing property, an unassigned `let`)
Undefined == "<undefined>"
\* null, as returned by fetchManifest
Null == [isNull |-> TRUE]

\* obj.field, undefined when the property is missing
Get(obj, field) == IF field \in DOMAIN obj THEN obj[field] ELSE Undefined

\* v || d for string-valued v
OrElse(v, d) == IF v = Undefined \/ v = "" THEN d ELSE v

\* ---------------------------------------------------------------- strings
\* File names are sequences of one-character strings, so that the
\* extension can be computed.
LowerChar(c) ==
  CASE c = "S" -> "s" [] c = "V" -> "v" [] c = "G" -> "g"
    [] c = "P" -> "p" [] c = "N" -> "n" [] OTHER -> c

\* String.prototype.toLowerCase
ToLowerCase(s) == [i \in 1..Len(s) |-> LowerChar(s[i])]

\* the part of p after its last "/"
BaseName(p) ==
  LET slashes == {i \in 1..Len(p) : p[i] = "/"}
      start == IF slashes = {} THEN 1
               ELSE (CHOOSE i \in slashes : \A j \in slashes : j <= i) + 1
  IN SubSeq(p, start, Len(p))

\* path.extname: from the last "." of the last path portion to its end;
\* empty when there is no "." or the only "." starts the portion
ExtName(p) ==
  LET b == BaseName(p)
      dots == {i \in 1..Len(b) : b[i] = "."}
      lastDot == CHOOSE i \in dots : \A j \in dots : j <= i
  IN IF dots = {} THEN <<>>
     ELSE IF lastDot = 1 THEN <<>>
     ELSE IF b = <<".", ".">> THEN <<>>
     ELSE SubSeq(b, lastDot, Len(b))

DotPng == <<".", "p", "n", "g">>
DotSvg == <<".", "s", "v", "g">>

\* line 201: path.extname(manifest.icon).toLowerCase() || ".png"
IconExt(icon) ==
  LET e == ToLowerCase(ExtName(icon)) IN IF e = <<>> THEN DotPng ELSE e

\* ----------------------------------------------------------------- inputs
PackageNames == <<"block-pin", "agenda", "kanban", "zettel">>

\* the listings the catalog endpoint can return: distinct names, each a
\* directory or a file
Listings ==
  UNION {[1..n -> {"dir", "file"}] : n \in 0..MaxListing}

ListingOf(types) ==
  [i \in 1..Len(types) |-> [name |-> PackageNames[i], type |-> types[i]]]

IconPng == <<"i", ".", "p", "n", "g">>
IconSVG == <<"l", ".", "S", "V", "G">>
IconNoExt == <<"i", "c">>

FixtureManifest ==
  [title |-> "Block pin", description |-> "Paste as pin",
   author |-> "Joodo", repo |-> "joodo/logseq-plugin-pin"]

\* manifests served to the run
Manifests ==
  { FixtureManifest,
    FixtureManifest @@ [icon |-> IconPng],
    [name |-> "Pin", id |-> "pin", version |-> "0.1.0", icon |-> IconSVG],
    [name |-> "", icon |-> IconNoExt],
    [id |-> "dot", icon |-> <<>>] }

CatalogResponses ==
  {[kind |-> "throws"], [kind |-> "notok"]}
    \cup {[kind |-> "ok", data |-> ListingOf(t)] : t \in Listings}

ManifestResponses ==
  {[kind |-> "throws"], [kind |-> "notok"]}
    \cup {[kind |-> "ok", body |-> m] : m \in Manifests}

Date1 == "2024-08-27T16:41:22Z"
Date2 == "2024-08-29T01:37:02Z"

\* one element of the commit-history array: {commit: {committer: {date}}},
\* with or without the date
CommitEntries == {<<>>, [date |-> ""], [date |-> Date1], [date |-> Date2]}

CommitArrays == UNION {[1..n -> CommitEntries] : n \in 0..MaxCommits}

\* every answer of the commit-history endpoint
AllCommitResponses ==
  {[kind |-> "throws"], [kind |-> "notok"], [kind |-> "badjson"],
   [kind |-> "ok", isArray |-> FALSE, commits |-> <<>>]}
    \cup {[kind |-> "ok", isArray |-> TRUE, commits |-> c] : c \in CommitArrays}

\* the answers served during a run of main()
RunCommitResponses ==
  {[kind |-> "notok"],
   [kind |-> "ok", isArray |-> TRUE,
    commits |-> <<[date |-> Date2], [date |-> Date1]>>]}

IconOutcomes == {"fetch_throws", "notok", "body_throws", "bad_image", "ok"}

\* --------------------------------------------------------- pure functions
\* lines 32-37: the value of maxItems after parsing "--max <val>"; val is
\* what parseInt returned (NaN and a missing flag leave maxItems undefined,
\* as every val <= 0 does). 0 stands for undefined.
ParseMax(val) == IF val > 0 THEN val ELSE 0

\* line 58 without the type test: every entry is processed
IsDirAny(pkg) == TRUE

\* line 58: the entries the loop does not skip
IsDir(pkg) == pkg.type = "dir"

\* lines 166-182: the manifest object, or null when the request throws, the
\* status is not ok or the body does not parse
fetchManifest(resp) ==
  IF resp.kind = "ok" THEN resp.body ELSE Null

EmptyDates == [created_at |-> "", last_updated |-> ""]

\* lines 263-265 with the two ends of the page exchanged
fetchCommitDatesSwapped(resp) ==
  IF resp.kind # "ok" THEN EmptyDates
  ELSE IF ~resp.isArray \/ Len(resp.commits) = 0 THEN EmptyDates
  ELSE [created_at |-> OrElse(Get(resp.commits[1], "date"), ""),
        last_updated |->
          OrElse(Get(resp.commits[Len(resp.commits)], "date"), "")]

\* lines 250-271
fetchCommitDates(resp) ==
  IF resp.kind \in {"throws", "badjson"} THEN EmptyDates
  ELSE IF resp.kind = "notok" THEN EmptyDates
  ELSE IF ~resp.isArray \/ Len(resp.commits) = 0 THEN EmptyDates
  ELSE [created_at |->
          OrElse(Get(resp.commits[Len(resp.commits)], "date"), ""),
        last_updated |-> OrElse(Get(resp.commits[1], "date"), "")]

\* line 195: if (manifest.icon)
HasIcon(manifest) == "icon" \in DOMAIN manifest /\ manifest.icon # <<>>

SvgName(packageName) == packageName \o ".svg"
PngName(packageName) == packageName \o ".png"

\* lines 203-236: the value of localIconUrl when fetchAndStoreIcon returns,
\* for a manifest with an icon. It is assigned before the body is read and
\* before the file is written, and the catch block does not reset it.
IconUrlAfter(ext, packageName, outcome) ==
  IF outcome \in {"fetch_throws", "notok"} THEN Undefined
  ELSE IF ext = DotSvg THEN "/icons/" \o SvgName(packageName)
  ELSE "/icons/" \o PngName(packageName)

\* lines 215-216 and 223-227: the icon file written, if any
IconFileAfter(ext, packageName, outcome) ==
  IF outcome \in {"fetch_throws", "notok", "body_throws"} THEN {}
  ELSE IF ext = DotSvg THEN {SvgName(packageName)}
  ELSE IF outcome = "bad_image" THEN {}
  ELSE {PngName(packageName)}

\* lines 111-122 with the fallback of name to pkg.name dropped
DetailsRecordNoFallback(pkg, manifest, commitDates, localIconUrl) ==
  IF manifest # Null
  THEN [name |-> Get(manifest, "name"),
        id |-> OrElse(Get(manifest, "id"), ""),
        description |-> OrElse(Get(manifest, "description"), ""),
        author |-> OrElse(Get(manifest, "author"), ""),
        repo |-> OrElse(Get(manifest, "repo"), ""),
        version |-> OrElse(Get(manifest, "version"), ""),
        dir |-> pkg.name,
        iconUrl |-> OrElse(localIconUrl, ""),
        created_at |-> commitDates.created_at,
        last_updated |-> commitDates.last_updated]
  ELSE [name |-> pkg.name,
        error |-> "No manifest.json",
        iconUrl |-> "",
        created_at |-> commitDates.created_at,
        last_updated |-> commitDates.last_updated]

\* lines 109-131: the record retrievePackageDetails returns
DetailsRecord(pkg, manifest, commitDates, localIconUrl) ==
  IF manifest # Null
  THEN [name |-> OrElse(Get(manifest, "name"), pkg.name),
        id |-> OrElse(Get(manifest, "id"), ""),
        description |-> OrElse(Get(manifest, "description"), ""),
        author |-> OrElse(Get(manifest, "author"), ""),
        repo |-> OrElse(Get(manifest, "repo"), ""),
        version |-> OrElse(Get(manifest, "version"), ""),
        dir |-> pkg.name,
        iconUrl |-> OrElse(localIconUrl, ""),
        created_at |-> commitDates.created_at,
        last_updated |-> commitDates.last_updated]
  ELSE [name |-> pkg.name,
        error |-> "No manifest.json",
        iconUrl |-> "",
        created_at |-> commitDates.created_at,
        last_updated |-> commitDates.last_updated]

\* line 61: if (details.error)
DetailsError(details) == OrElse(Get(details, "error"), "") # ""

\* line 66 with unshift in place of push
PushFront(res, details) == <<details>> \o res

\* line 66: results.push(details)
Push(res, details) == Append(res, details)

\* line 73: maxItems && count >= maxItems
CapReached(max, cnt) == max # 0 /\ cnt >= max

\* ------------------------------------------------------------------ state
VARIABLES
  outputDirExists,  \* fs.existsSync(OUTPUT_DIR)
  iconDir,          \* public/icons: "exists", "creatable" or "uncreatable"
  maxItems,         \* the cap, 0 when undefined
  pc,               \* where main() is
  packages,         \* the listing fetchPackages returned
  idx,              \* position of the loop in packages
  results,          \* the accumulator
  count,
  manifest,         \* locals of retrievePackageDetails
  commitDates,
  inflight,         \* the requests issued and not yet answered
  issued,           \* every request issued, in order
  outputFile,       \* content of the output JSON file
  writes,           \* number of writes of the output file
  iconFiles,        \* files written under public/icons
  exitCode,
  caughtError,      \* what main's catch block logged, "" when nothing
  seen,             \* per processed package: manifest result, icon outcome
  arg,              \* argument and result of a direct call of an
  ret               \* exported function

vars == <<outputDirExists, iconDir, maxItems, pc, packages, idx, results,
          count, manifest, commitDates, inflight, issued, outputFile, writes,
          iconFiles, exitCode, caughtError, seen, arg, ret>>

\* what a previous run left in the output file
PreviousOutput == <<[name |-> "previous-run"]>>

NotCalled == [called |-> FALSE]

Req(kind, name) == [kind |-> kind, pkg |-> name]

InitRun ==
  /\ outputDirExists \in BOOLEAN
  /\ iconDir \in {"exists", "creatable", "uncreatable"}
  /\ \E val \in -1..MaxCap : maxItems = ParseMax(val)
  /\ pc = "main"
  /\ packages = <<>>
  /\ idx = 0
  /\ results = <<>>
  /\ count = 0
  /\ manifest = Null
  /\ commitDates = EmptyDates
  /\ inflight = {}
  /\ issued = <<>>
  /\ outputFile = PreviousOutput
  /\ writes = 0
  /\ iconFiles = {}
  /\ exitCode = 0
  /\ caughtError = ""
  /\ seen = <<>>

Init == InitRun /\ arg = NotCalled /\ ret = NotCalled

\* ------------------------------------------------------ control of main()
\* the first directory entry at or after position k, 0 when there is none
NextDirIndex(pkgs, k) ==
  LET dirs == {j \in k..Len(pkgs) : IsDir(pkgs[j])}
  IN IF dirs = {} THEN 0 ELSE CHOOSE j \in dirs : \A i \in dirs : j <= i

\* lines 107-108 with both requests started before either is awaited
RequestsAtPackageStartBoth(name) ==
  <<[kind |-> "manifest", pkg |-> name], [kind |-> "commits", pkg |-> name]>>

\* lines 107-108: the requests retrievePackageDetails has issued when it
\* first suspends
RequestsAtPackageStart(name) == <<Req("manifest", name)>>

SeqToSet(s) == {s[i] : i \in 1..Len(s)}

\* lines 78-79 and the normal end of the process
Finish(res, infl) ==
  /\ outputFile' = res
  /\ writes' = writes + 1
  /\ pc' = "exited"
  /\ exitCode' = 0
  /\ inflight' = infl
  /\ UNCHANGED <<idx, issued, caughtError>>

\* lines 80-82: the exception is logged; the process then ends normally
Catch(e, infl) ==
  /\ caughtError' = e
  /\ pc' = "exited"
  /\ exitCode' = 0
  /\ inflight' = infl
  /\ UNCHANGED <<idx, issued, outputFile, writes>>

\* lines 57-60: the loop from position k up to its next await, or to the
\* write when the listing is exhausted
LoopFrom(pkgs, k, res, infl) ==
  LET j == NextDirIndex(pkgs, k) IN
  IF j = 0 THEN Finish(res, infl)
  ELSE /\ idx' = j
       /\ pc' = "await_manifest"
       /\ inflight' = infl \cup SeqToSet(RequestsAtPackageStart(pkgs[j].name))
       /\ issued' = issued \o RequestsAtPackageStart(pkgs[j].name)
       /\ UNCHANGED <<outputFile, writes, exitCode, caughtError>>

\* lines 61-76: main() with the details of the current package
AfterDetails(details, infl) ==
  IF DetailsError(details)
  THEN /\ UNCHANGED <<results, count>>
       /\ LoopFrom(packages, idx + 1, results, infl)
  ELSE LET res == Push(results, details)
           cnt == count + 1
       IN /\ results' = res
          /\ count' = cnt
          /\ IF CapReached(maxItems, cnt) THEN Finish(res, infl)
             ELSE LoopFrom(packages, idx + 1, res, infl)

\* line 49 with the existence test dropped
OutputDirNeverMissing == FALSE

\* line 49
OutputDirMissing == ~outputDirExists

\* ---------------------------------------------------------------- actions
\* lines 48-54, up to the await of fetchPackages
Main ==
  /\ pc = "main"
  /\ IF OutputDirMissing
     THEN /\ pc' = "exited"
          /\ exitCode' = 1
          /\ UNCHANGED <<inflight, issued>>
     ELSE /\ pc' = "await_packages"
          /\ inflight' = inflight \cup {Req("catalog", "")}
          /\ issued' = Append(issued, Req("catalog", ""))
          /\ UNCHANGED exitCode
  /\ UNCHANGED <<outputDirExists, iconDir, maxItems, packages, idx, results,
                 count, manifest, commitDates, outputFile, writes, iconFiles,
                 caughtError, seen, arg, ret>>

\* lines 142-157 and 54-60: the catalog answers
FetchPackagesResponse ==
  /\ pc = "await_packages"
  /\ \E resp \in CatalogResponses :
       LET infl == inflight \ {Req("catalog", "")} IN
       IF resp.kind # "ok"
       THEN /\ Catch("Failed to fetch package list", infl)
            /\ UNCHANGED packages
       ELSE /\ packages' = resp.data
            /\ LoopFrom(resp.data, 1, results, infl)
  /\ UNCHANGED <<outputDirExists, iconDir, maxItems, results, count, manifest,
                 commitDates, iconFiles, seen, arg, ret>>

\* lines 107-108: the manifest answers, the commit history is requested
FetchManifestResponse ==
  /\ pc = "await_manifest"
  /\ \E resp \in ManifestResponses :
       LET name == packages[idx].name IN
       /\ manifest' = fetchManifest(resp)
       /\ seen' = seen @@ (name :> [manifest |-> fetchManifest(resp),
                                    icon |-> "none"])
       /\ inflight' = (inflight \ {Req("manifest", name)})
                        \cup {Req("commits", name)}
       /\ issued' = Append(issued, Req("commits", name))
  /\ pc' = "await_commits"
  /\ UNCHANGED <<outputDirExists, iconDir, maxItems, packages, idx, results,
                 count, commitDates, outputFile, writes, iconFiles, exitCode,
                 caughtError, arg, ret>>

\* lines 108-131, 193-204 and 61-78: the commit history answers; without a
\* manifest or without an icon the record is complete, otherwise the icon
\* directory is ensured and the icon requested
FetchCommitDatesResponse ==
  /\ pc = "await_commits"
  /\ \E resp \in RunCommitResponses :
       LET pkg == packages[idx]
           dates == fetchCommitDates(resp)
           infl == inflight \ {Req("commits", pkg.name)}
       IN /\ commitDates' = dates
          /\ IF manifest = Null \/ ~HasIcon(manifest)
             THEN /\ AfterDetails(DetailsRecord(pkg, manifest, dates, Undefined),
                                  infl)
                  /\ UNCHANGED iconDir
             ELSE IF iconDir = "uncreatable"
             THEN /\ Catch("mkdir public/icons", infl)
                  /\ UNCHANGED <<iconDir, results, count>>
             ELSE /\ iconDir' = "exists"
                  /\ pc' = "await_icon"
                  /\ inflight' = infl \cup {Req("icon", pkg.name)}
                  /\ issued' = Append(issued, Req("icon", pkg.name))
                  /\ UNCHANGED <<idx, results, count, outputFile, writes,
                                 exitCode, caughtError>>
  /\ UNCHANGED <<outputDirExists, maxItems, packages, manifest, iconFiles,
                 seen, arg, ret>>

\* lines 204-240, 111-122 and 61-78: the icon answers
IconResponse ==
  /\ pc = "await_icon"
  /\ \E outcome \in IconOutcomes :
       LET pkg == packages[idx]
           ext == IconExt(manifest.icon)
           url == IconUrlAfter(ext, pkg.name, outcome)
       IN /\ iconFiles' = iconFiles \cup IconFileAfter(ext, pkg.name, outcome)
          /\ seen' = [seen EXCEPT ![pkg.name].icon = outcome]
          /\ AfterDetails(DetailsRecord(pkg, manifest, commitDates, url),
                          inflight \ {Req("icon", pkg.name)})
  /\ UNCHANGED <<outputDirExists, iconDir, maxItems, packages, manifest,
                 commitDates, arg, ret>>

Next ==
  \/ Main
  \/ FetchPackagesResponse
  \/ FetchManifestResponse
  \/ FetchCommitDatesResponse
  \/ IconResponse

Spec == Init /\ [][Next]_vars

\* ------------------------------------------- direct call: fetchCommitDates
\* the exported fetchCommitDates called on its own, as the test suite does,
\* with the answer of the commit-history endpoint as arg
InitDates ==
  /\ InitRun
  /\ outputDirExists /\ iconDir = "exists" /\ maxItems = 0
  /\ arg \in AllCommitResponses
  /\ ret = NotCalled

TestFetchCommitDates ==
  /\ ret = NotCalled
  /\ arg \in AllCommitResponses
  /\ ret' = [called |-> TRUE, value |-> fetchCommitDates(arg)]
  /\ UNCHANGED <<outputDirExists, iconDir, maxItems, pc, packages, idx,
                 results, count, manifest, commitDates, inflight, issued,
                 outputFile, writes, iconFiles, exitCode, caughtError, seen,
                 arg>>

NextDates == TestFetchCommitDates

SpecDates == InitDates /\ [][NextDates]_vars

\* ----------------------------------------------------------------- claims
\* position of the listing entry called name, 0 when there is none
PosOf(name) ==
  LET at == {j \in 1..Len(packages) : packages[j].name = name}
  IN IF at = {} THEN 0 ELSE CHOOSE j \in at : TRUE

Written == writes > 0

\* C1: every processed directory entry whose manifest is absent has, in the
\* written output, a record with error "No manifest.json" and iconUrl "".
C1_AbsentManifestRecorded ==
  Written =>
    \A name \in DOMAIN seen :
      seen[name].manifest = Null =>
        \E i \in 1..Len(outputFile) :
          /\ outputFile[i].name = name
          /\ Get(outputFile[i], "error") = "No manifest.json"
          /\ outputFile[i].iconUrl = ""

\* C2: manifest, commit-history and icon requests are issued only for
\* listing entries of type "dir", and every record accumulated or written
\* comes from such an entry.
C2_OnlyDirEntries ==
  /\ \A i \in 1..Len(issued) :
       issued[i].kind # "catalog" =>
         /\ PosOf(issued[i].pkg) # 0
         /\ packages[PosOf(issued[i].pkg)].type = "dir"
  /\ \A i \in 1..Len(results) :
       /\ PosOf(results[i].dir) # 0
       /\ packages[PosOf(results[i].dir)].type = "dir"
  /\ Written => outputFile = results

\* a finished run whose listing held a non-directory entry before a
\* directory entry that got a record
C2_Witness ==
  /\ Written
  /\ Len(outputFile) > 0
  /\ \E j \in 1..Len(packages) :
       /\ packages[j].type # "dir"
       /\ j < PosOf(outputFile[1].dir)

\* C3: when an exception is thrown while one package's record is assembled,
\* only that package is skipped: the output file is still written.
C3_ThrowSkipsOnlyThatPackage ==
  (pc = "exited" /\ caughtError = "mkdir public/icons") => Written

\* C4: a failed catalog fetch ends the run with a non-zero exit status.
C4_CatalogFailureExitsNonZero ==
  (pc = "exited" /\ caughtError = "Failed to fetch package list")
    => exitCode # 0

\* C5: the output file is written only when the output directory exists and
\* the catalog fetch succeeded; otherwise it keeps its previous content, and
\* with the directory missing no request is issued.
C5_WriteOnlyAfterCatalog ==
  /\ Written =>
       /\ outputDirExists
       /\ caughtError = ""
       /\ Len(issued) > 0
       /\ issued[1] = Req("catalog", "")
       /\ Req("catalog", "") \notin inflight
       /\ writes = 1
  /\ ~Written => outputFile = PreviousOutput
  /\ caughtError = "Failed to fetch package list" => ~Written
  /\ ~outputDirExists => (issued = <<>> /\ inflight = {} /\ ~Written)

\* a run that ended on a failed catalog fetch
C5_Witness ==
  /\ pc = "exited"
  /\ caughtError = "Failed to fetch package list"
  /\ outputFile = PreviousOutput

\* C6: with a cap N, requests are issued for at most N directory entries.
C6_CapBoundsProcessedEntries ==
  maxItems # 0 =>
    Cardinality({issued[i].pkg : i \in {k \in 1..Len(issued) :
                                         issued[k].kind = "manifest"}})
      <= maxItems

\* C7: the accumulator holds at most one record per listing entry, all of
\* entries already reached by the loop, in listing order; the written
\* output is that accumulator.
C7_ListingOrder ==
  /\ \A i \in 1..Len(results) :
       /\ PosOf(results[i].dir) \in 1..idx
       /\ \A j \in 1..Len(results) :
            i < j => PosOf(results[i].dir) < PosOf(results[j].dir)
  /\ Written => outputFile = results

\* a written output of two records
C7_Witness == Written /\ Len(outputFile) >= 2

\* the committer date of a commit entry, "" when it has none
DateOf(entry) == IF "date" \in DOMAIN entry THEN entry.date ELSE ""

\* C8: fetchCommitDates returns, for a successful non-empty array,
\* last_updated = date of the first entry and created_at = date of the last
\* entry ("" for an entry without date), and two empty strings otherwise.
C8_CommitDates ==
  ret # NotCalled =>
    IF arg.kind = "ok" /\ arg.isArray /\ arg.commits # <<>>
    THEN /\ ret.value.last_updated = DateOf(Head(arg.commits))
         /\ ret.value.created_at = DateOf(arg.commits[Len(arg.commits)])
    ELSE ret.value = [created_at |-> "", last_updated |-> ""]

\* a call answered with several commits whose first and last dates differ
C8_Witness ==
  /\ ret # NotCalled
  /\ arg.kind = "ok" /\ arg.isArray /\ Len(arg.commits) >= 2
  /\ ret.value.created_at = Date1
  /\ ret.value.last_updated = Date2

\* C9: at most one request is outstanding, it belongs to the entry the loop
\* is at, requests are issued in listing order, and none is outstanding
\* when the output file is written.
C9_Sequential ==
  /\ Cardinality(inflight) <= 1
  /\ \A r \in inflight :
       IF r.kind = "catalog" THEN pc = "await_packages"
       ELSE idx \in 1..Len(packages) /\ r.pkg = packages[idx].name
  /\ \A i \in 1..Len(issued) : \A j \in 1..Len(issued) :
       (i < j /\ issued[i].kind # "catalog")
         => /\ issued[j].kind # "catalog"
            /\ PosOf(issued[i].pkg) <= PosOf(issued[j].pkg)
  /\ pc = "exited" => inflight = {}

\* a finished run that made requests for two listing entries
C9_Witness ==
  /\ Written
  /\ \E i \in 1..Len(issued) : \E j \in 1..Len(issued) :
       /\ issued[i].kind = "icon"
       /\ issued[j].kind = "manifest"
       /\ i < j

\* C10: the iconUrl of the record of a package with a manifest is "" without
\* an icon or when download or transform fails, /icons/<name>.svg for a
\* downloaded .svg icon, /icons/<name>.png for any other transformed icon.
C10_IconUrl ==
  \A i \in 1..Len(results) :
    LET r == results[i]
        s == seen[r.dir]
        m == s.manifest
    IN r.iconUrl =
         IF ~HasIcon(m) THEN ""
         ELSE IF s.icon \in {"fetch_throws", "notok", "body_throws"} THEN ""
         ELSE IF ToLowerCase(ExtName(m.icon)) = DotSvg
              THEN "/icons/" \o r.dir \o ".svg"
         ELSE IF s.icon = "bad_image" THEN ""
         ELSE "/icons/" \o r.dir \o ".png"

\* the value the record must carry for a manifest field: the manifest's
\* value, or the default when the manifest lacks it or has it empty
FieldOr(m, field, default) ==
  IF field \in DOMAIN m /\ m[field] # "" THEN m[field] ELSE default

\* C11: the record retrievePackageDetails returns for an entry with a
\* manifest (the one main() appends) has dir = the listing name, name = the
\* manifest's name or else the listing name, id, description, author, repo
\* and version = the manifest's value or "", created_at and last_updated =
\* the dates fetchCommitDates returned for that package, and no error field.
C11_RecordFields ==
  [][Len(results') > Len(results) =>
       LET r == results'[Len(results')]
           m == manifest
           listing == packages[idx].name
       IN /\ m # Null
          /\ r.dir = listing
          /\ r.name = FieldOr(m, "name", listing)
          /\ \A f \in {"id", "description", "author", "repo", "version"} :
               r[f] = FieldOr(m, f, "")
          /\ r.created_at = commitDates'.created_at
          /\ r.last_updated = commitDates'.last_updated
          /\ r.created_at \in {"", Date1, Date2}
          /\ r.last_updated \in {"", Date1, Date2}
          /\ "error" \notin DOMAIN r]_vars

\* a written output with a record named by its manifest and a record that
\* fell back to the listing name, with the dates of its commit history
C11_Witness ==
  /\ Written
  /\ \E i \in 1..Len(results) : \E j \in 1..Len(results) :
       /\ results[i].name = "Pin" /\ results[i].dir # "Pin"
       /\ results[i].version = "0.1.0"
       /\ results[j].name = results[j].dir
       /\ results[j].author = "Joodo" /\ results[j].id = ""
       /\ results[j].created_at = Date1
       /\ results[j].last_updated = Date2

====
